---------------------------- MODULE Spec2Model ----------------------------
(***************************************************************************)
(* macrokit: the two conversion derives (FromReprAsOption,                 *)
(* FromReprWithUnknown) and the attribute transform enum_with_hex_docs.    *)
(*                                                                         *)
(* A declaration is the parsed syntax tree a transform receives.  The      *)
(* derives are modelled as one step each (they are straight-line code);    *)
(* generate_enum_with_docs is modelled loop iteration by loop iteration,   *)
(* so that its running counter next_val is part of the state.  The         *)
(* functions the derives emit are evaluated by CallFromRepr / CallFrom on  *)
(* declarations the host compiler accepts.                                 *)
(*                                                                         *)
(* Option<T> is a sequence: None is << >>, Some(x) is <<x>>.               *)
(* A discriminant value of the host language is a pair <<hi, lo>> standing *)
(* for hi * 2^127 + lo, so that a literal above i128::MAX has a value      *)
(* different from every i128 the transform can compute.                    *)
(***************************************************************************)
EXTENDS Integers, Sequences, FiniteSets, TLC

VARIABLES input, macro, output, call, pc, repr_ty, next_val, resolved, variants

vars == <<input, macro, output, call, pc, repr_ty, next_val, resolved, variants>>

-----------------------------------------------------------------------------
(* Bounds of the model *)

\* largest small integer literal used as an explicit discriminant
MaxLit == 1
\* most variants in a declaration
MaxVariants == 3
\* most arguments inside one #[repr(...)] attribute
MaxArgs == 2
\* largest value handed to a generated conversion function
MaxValue == 3

-----------------------------------------------------------------------------
(* Syntax *)

None == << >>
Some(x) == <<x>>

\* the integer type names extract_repr recognizes
KnownInts ==
  {"u8", "u16", "u32", "u64", "u128", "i8", "i16", "i32", "i64", "i128", "usize", "isize"}

\* One argument of an attribute: a bare path (u8, C) or a list form that
\* carries its own parenthesized tokens (align(4)).
Arg(p, l) == [path |-> p, list |-> l]

ArgTokens == {Arg("u8", FALSE), Arg("i16", FALSE), Arg("C", FALSE), Arg("align", TRUE)}

ArgLists == UNION {[1..n -> ArgTokens] : n \in 0..MaxArgs}

Attr(p, a) == [path |-> p, args |-> a]

ReprAttrs == {Attr("repr", a) : a \in ArgLists}

OtherAttr == Attr("derive", <<Arg("Debug", FALSE)>>)

\* Discriminant expressions of a variant.
\*   none   : the variant has no explicit discriminant
\*   lit    : an integer literal whose value fits i128
\*   biglit : an integer literal of value i128::MAX + 1 + val (legal under repr(u128))
\*   expr   : any other expression (a constant, -1, 1 << 3); the host evaluates it to val
NoDisc == [kind |-> "none", val |-> 0]
Lit(n) == [kind |-> "lit", val |-> n]
BigLit == [kind |-> "biglit", val |-> 0]
ExprOf(n) == [kind |-> "expr", val |-> n]

\* attributes a variant may carry in the input
CfgAttr == [path |-> "cfg", value |-> <<"test">>, generated |-> FALSE]
OrigDoc == [path |-> "doc", value |-> <<"legacy">>, generated |-> FALSE]

Variant(id, d, a) == [ident |-> id, disc |-> d, attrs |-> a]

VariantNames == <<"A", "B", "C", "Unknown">>

RECURSIVE SeqRange(_)
SeqRange(s) == IF s = <<>> THEN {} ELSE {Head(s)} \cup SeqRange(Tail(s))

Distinct(s) == \A i, j \in 1..Len(s) : i # j => s[i] # s[j]

Idents(vs) == [i \in 1..Len(vs) |-> vs[i].ident]

-----------------------------------------------------------------------------
(* Representation-type extraction *)

\* attr.parse_args::<Ident>().ok(): the attribute's tokens must be exactly one
\* identifier; anything else (no argument, several, a list form) is an error.
parse_args_ident(attr) ==
  IF Len(attr.args) = 1 /\ ~attr.args[1].list
  THEN Some(attr.args[1].path)
  ELSE None

\* a plausible slip: a repr attribute that does not parse is skipped
RECURSIVE get_repr_type_skipping(_)
get_repr_type_skipping(attrs) ==
  IF attrs = <<>> THEN None
  ELSE IF Head(attrs).path = "repr" /\ parse_args_ident(Head(attrs)) # None
       THEN parse_args_ident(Head(attrs))
       ELSE get_repr_type_skipping(Tail(attrs))

\* from_repr.rs get_repr_type: the first attribute named repr decides
RECURSIVE get_repr_type(_)
get_repr_type(attrs) ==
  IF attrs = <<>> THEN None
  ELSE IF Head(attrs).path = "repr"
       THEN parse_args_ident(Head(attrs))
       ELSE get_repr_type(Tail(attrs))

\* a plausible slip: keep the first known name instead of overwriting found
RECURSIVE parse_nested_meta_first(_, _)
parse_nested_meta_first(args, found) ==
  IF args = <<>> THEN found
  ELSE LET f == IF Head(args).path \in KnownInts /\ found = None
                THEN Some(Head(args).path) ELSE found
       IN  IF Head(args).list THEN f ELSE parse_nested_meta_first(Tail(args), f)

\* attr.parse_nested_meta with the closure of extract_repr: the closure runs
\* on each argument's path in turn and records a known integer name in
\* `found`; an argument in list form leaves its parenthesized tokens unread,
\* so the parser fails right after the closure has run on it, and the
\* arguments behind it are never seen.  The error is discarded (let _ =).
RECURSIVE parse_nested_meta(_, _)
parse_nested_meta(args, found) ==
  IF args = <<>> THEN found
  ELSE LET f == IF Head(args).path \in KnownInts THEN Some(Head(args).path) ELSE found
       IN  IF Head(args).list THEN f ELSE parse_nested_meta(Tail(args), f)

\* the scan of one #[repr(...)] attribute
scan_repr_args(args) == parse_nested_meta(args, None)

\* enum_macro.rs extract_repr: the first repr attribute in which a known
\* integer name was found decides
RECURSIVE extract_repr(_)
extract_repr(attrs) ==
  IF attrs = <<>> THEN None
  ELSE IF Head(attrs).path = "repr" /\ scan_repr_args(Head(attrs).args) # None
       THEN scan_repr_args(Head(attrs).args)
       ELSE extract_repr(Tail(attrs))

-----------------------------------------------------------------------------
(* The conversion derives *)

Pending == [status |-> "pending"]
Panic(m) == [status |-> "panic", msg |-> m]

RECURSIVE FilterIdents(_, _)
FilterIdents(vs, skip) ==
  IF vs = <<>> THEN <<>>
  ELSE IF Head(vs).ident \in skip
       THEN FilterIdents(Tail(vs), skip)
       ELSE <<Head(vs).ident>> \o FilterIdents(Tail(vs), skip)

\* a plausible slip: the filter of the other derive copied over
option_match_arms_filtered(vs) == FilterIdents(vs, {"Unknown"})

\* from_repr_as_option_derive_impl: one arm per variant, in declaration order
option_match_arms(vs) == FilterIdents(vs, {})

\* a plausible slip: the comparison never matches ("unknown" for "Unknown")
unknown_match_arms_unfiltered(vs) == FilterIdents(vs, {})

\* from_repr_with_unknown_derive_impl: one arm per variant except Unknown
unknown_match_arms(vs) == FilterIdents(vs, {"Unknown"})

from_repr_as_option_derive_impl(ast) ==
  IF get_repr_type(ast.attrs) = None
  THEN Panic("FromReprAsOption requires a #[repr(...)] attribute (e.g., #[repr(u8)])")
  ELSE IF ast.kind # "enum"
       THEN Panic("FromReprAsOption can only be used on enums")
       ELSE [status    |-> "ok",
             form      |-> "impl_from_repr",
             repr_type |-> get_repr_type(ast.attrs)[1],
             arms      |-> option_match_arms(ast.variants),
             fallback  |-> None]

\* a variant of the derive that looks for the Unknown variant itself
from_repr_with_unknown_checking(ast) ==
  IF get_repr_type(ast.attrs) = None
  THEN Panic("FromWithUnknown requires a #[repr(...)] attribute (e.g., #[repr(u8)])")
  ELSE IF ast.kind # "enum"
       THEN Panic("FromWithUnknown can only be used on enums")
       ELSE IF "Unknown" \notin SeqRange(Idents(ast.variants))
            THEN Panic("the designated fallback variant is missing")
            ELSE [status    |-> "ok",
                  form      |-> "impl_from",
                  repr_type |-> get_repr_type(ast.attrs)[1],
                  arms      |-> unknown_match_arms(ast.variants),
                  fallback  |-> "Unknown"]

from_repr_with_unknown_derive_impl(ast) ==
  IF get_repr_type(ast.attrs) = None
  THEN Panic("FromWithUnknown requires a #[repr(...)] attribute (e.g., #[repr(u8)])")
  ELSE IF ast.kind # "enum"
       THEN Panic("FromWithUnknown can only be used on enums")
       ELSE [status    |-> "ok",
             form      |-> "impl_from",
             repr_type |-> get_repr_type(ast.attrs)[1],
             arms      |-> unknown_match_arms(ast.variants),
             fallback  |-> "Unknown"]

-----------------------------------------------------------------------------
(* The host language: what a declaration and the emitted code mean *)

\* the width of an integer type, for the types narrow enough to matter here
IntBits(ty) == IF ty \in {"u8", "i8"} THEN 8 ELSE 16

\* `v as ty` on an i128 value: wraps to the width of ty.  Every value of the
\* model lies below 2^15, so the cast changes nothing for a type wider than
\* 16 bits.
AsCast(v, ty) ==
  IF ty \in {"u8", "u16"} THEN v % (2 ^ IntBits(ty))
  ELSE IF ty \in {"i8", "i16"}
       THEN ((v + 2 ^ (IntBits(ty) - 1)) % (2 ^ IntBits(ty))) - 2 ^ (IntBits(ty) - 1)
       ELSE v

\* the value of one discriminant, prev being the value of the variant before
\* (<<0, -1>> in front of the first one): an explicit expression has its own
\* value, a variant without one is one more than its predecessor
DiscriminantValue(d, prev) ==
  CASE d.kind = "none"   -> <<prev[1], prev[2] + 1>>
    [] d.kind = "lit"    -> <<0, d.val>>
    [] d.kind = "expr"   -> <<0, d.val>>
    [] d.kind = "biglit" -> <<1, d.val>>
    [] d.kind = "cast"   -> <<0, AsCast(d.val, d.ty)>>

\* `Enum::Variant as repr_type` for every variant, in declaration order
RECURSIVE HostDiscriminants(_, _)
HostDiscriminants(vs, prev) ==
  IF vs = <<>> THEN <<>>
  ELSE LET d == DiscriminantValue(Head(vs).disc, prev)
       IN  <<d>> \o HostDiscriminants(Tail(vs), d)

Discriminants(vs) == HostDiscriminants(vs, <<0, -1>>)

DiscriminantOf(vs, id) ==
  Discriminants(vs)[CHOOSE i \in 1..Len(vs) : vs[i].ident = id]

\* The host compiler accepts the declaration together with the emitted impl:
\* the representation type names an integer type, the enum has a variant, no
\* discriminant value is used twice, and every variant the impl names exists.
HostAccepts(ast, out) ==
  /\ ast.kind = "enum"
  /\ out.status = "ok"
  /\ out.repr_type \in KnownInts
  /\ ast.variants # <<>>
  /\ Distinct(Discriminants(ast.variants))
  /\ out.form = "impl_from" => out.fallback \in SeqRange(Idents(ast.variants))

\* the integer type the host takes from the repr attributes, isize without one
DeclaredRepr(attrs) ==
  LET known == {t \in KnownInts :
                  \E i \in 1..Len(attrs) :
                    /\ attrs[i].path = "repr"
                    /\ \E k \in 1..Len(attrs[i].args) : attrs[i].args[k].path = t}
  IN  IF known = {} THEN "isize" ELSE CHOOSE t \in known : TRUE

\* a discriminant value lies in the range of the integer type
FitsRepr(d, ty) ==
  IF ty = "u128" THEN d[2] >= 0
  ELSE IF ty \in {"u8", "u16"} THEN d[1] = 0 /\ d[2] >= 0 /\ d[2] < 2 ^ IntBits(ty)
  ELSE d[1] = 0

\* The host compiler accepts the declaration as it stands, before any
\* transform: an enum's discriminant values are pairwise distinct and in the
\* range of its representation type, an enum without variants has no repr
\* attribute, and a struct has no integer representation.
ValidDecl(d) ==
  IF d.kind = "enum"
  THEN /\ Distinct(Discriminants(d.variants))
       /\ \A i \in 1..Len(d.variants) :
            FitsRepr(Discriminants(d.variants)[i], DeclaredRepr(d.attrs))
       /\ d.variants = <<>> => \A i \in 1..Len(d.attrs) : d.attrs[i].path # "repr"
  ELSE DeclaredRepr(d.attrs) = "isize" /\ d.variants = <<>>

\* match value { v if v == Enum::Variant as T => hit(Variant), ... _ => miss }
RECURSIVE EvalMatch(_, _, _)
EvalMatch(arms, value, vs) ==
  IF arms = <<>> THEN None
  ELSE IF <<0, value>> = DiscriminantOf(vs, Head(arms))
       THEN Some(Head(arms))
       ELSE EvalMatch(Tail(arms), value, vs)

\* Enum::from_repr(value) as emitted by FromReprAsOption
from_repr(out, value, vs) == EvalMatch(out.arms, value, vs)

\* <Enum as From<T>>::from(value) as emitted by FromReprWithUnknown
from(out, value, vs) ==
  LET hit == EvalMatch(out.arms, value, vs)
  IN  IF hit = None THEN out.fallback ELSE hit[1]

-----------------------------------------------------------------------------
(* The documentation transform *)

HexDigit(d) ==
  <<"0", "1", "2", "3", "4", "5", "6", "7", "8", "9", "A", "B", "C", "D", "E", "F">>[d + 1]

\* format!("{:#X}", v) for v >= 0 (the transform never computes a negative value)
RECURSIVE HexDigits(_)
HexDigits(v) ==
  IF v < 16 THEN <<HexDigit(v)>> ELSE HexDigits(v \div 16) \o <<HexDigit(v % 16)>>

\* format!("{}", v) for v >= 0
RECURSIVE DecDigits(_)
DecDigits(v) ==
  IF v < 10 THEN <<HexDigit(v)>> ELSE DecDigits(v \div 10) \o <<HexDigit(v % 10)>>

\* the doc string, as the pieces format! puts together
DocString(ident, val) ==
  IF val # None
  THEN <<ident, " = ", "0x">> \o HexDigits(val[1]) \o <<" (">> \o DecDigits(val[1]) \o <<")">>
  ELSE <<ident, " (unknown)">>

\* lit_int.base10_parse::<i128>() behind the three `if let`s: only an integer
\* literal that fits i128 yields a value
ParseDiscriminant(d) == IF d.kind = "lit" THEN Some(d.val) ELSE None

\* one iteration's val and next_val: a parsed literal sets both; whenever val
\* is still None afterwards, the counter (which is never None) supplies it.
\* The values of the model stay far below i128::MAX, where v + 1 overflows.
ResolveVariant(d, nv) ==
  LET parsed == ParseDiscriminant(d)
      nv1    == IF parsed # None THEN Some(parsed[1] + 1) ELSE nv
  IN  IF parsed = None /\ nv1 # None
      THEN [val |-> nv1, next_val |-> Some(nv1[1] + 1)]
      ELSE [val |-> parsed, next_val |-> nv1]

GeneratedDoc(doc) == [path |-> "doc", value |-> doc, generated |-> TRUE]

\* a variant of the emission: the generated line in front of the variant's own
EmitVariantDocFirst(v, val, ty) ==
  [ident |-> v.ident,
   attrs |-> <<GeneratedDoc(DocString(v.ident, val))>> \o v.attrs,
   disc  |-> IF val # None
             THEN [kind |-> "cast", val |-> val[1], ty |-> ty]
             ELSE NoDisc]

\* a variant of the emission: a discriminant only where the input had one
EmitVariantKeepingBare(v, val, ty) ==
  [ident |-> v.ident,
   attrs |-> v.attrs \o <<GeneratedDoc(DocString(v.ident, val))>>,
   disc  |-> IF val # None /\ v.disc.kind # "none"
             THEN [kind |-> "cast", val |-> val[1], ty |-> ty]
             ELSE NoDisc]

\* quote! { #( #attrs )* #[doc = #doc] #ident = #v as #repr_ty } when val is
\* Some(v), and the same without the discriminant otherwise
EmitVariant(v, val, ty) ==
  [ident |-> v.ident,
   attrs |-> v.attrs \o <<GeneratedDoc(DocString(v.ident, val))>>,
   disc  |-> IF val # None
             THEN [kind |-> "cast", val |-> val[1], ty |-> ty]
             ELSE NoDisc]

-----------------------------------------------------------------------------
(* Declarations the transforms are applied to *)

Min(a, b) == IF a < b THEN a ELSE b

\* the variant list over the identifiers ns whose i-th variant is f[i]
DeclVariants(ns, f) == [i \in 1..Len(ns) |-> Variant(ns[i], f[i].disc, f[i].attrs)]

NameSeqs ==
  {s \in UNION {[1..n -> SeqRange(VariantNames)] : n \in 0..MaxVariants} : Distinct(s)}

Enum(attrs, vs) == [kind |-> "enum", attrs |-> attrs, variants |-> vs]
Struct(attrs) == [kind |-> "struct", attrs |-> attrs, variants |-> <<>>]

\* declarations for the conversion derives: an enum over distinct
\* identifiers, or a struct
ConvChoices ==
  [disc : {NoDisc} \cup {Lit(n) : n \in 0..MaxLit} \cup {ExprOf(MaxLit + 1)}, attrs : {<<>>}]

ConvAttrLists ==
  { <<>>,
    <<Attr("repr", <<Arg("u8", FALSE)>>)>>,
    <<OtherAttr, Attr("repr", <<Arg("i16", FALSE)>>)>>,
    <<Attr("repr", <<Arg("C", FALSE)>>)>> }

IsConvDecl(d) ==
  \E a \in ConvAttrLists :
    \/ d = Struct(a)
    \/ \E ns \in NameSeqs : \E f \in [1..Len(ns) -> ConvChoices] :
         d = Enum(a, DeclVariants(ns, f))

\* declarations for the documentation transform; 255 is the 0xFF of the
\* crate's own example
DocIdents == <<"A", "B", "C", "D">>

DocChoices ==
  [disc  : {NoDisc, BigLit, Lit(255), ExprOf(MaxLit + 1)} \cup {Lit(n) : n \in 0..MaxLit},
   attrs : {<<>>, <<OrigDoc, CfgAttr>>}]

DocAttrLists ==
  { <<>>,
    <<OtherAttr, Attr("repr", <<Arg("u8", FALSE)>>)>>,
    <<Attr("repr", <<Arg("u128", FALSE)>>)>> }

IsDocDecl(d) ==
  \E a \in DocAttrLists : \E n \in 0..Min(MaxVariants, Len(DocIdents)) :
    \E f \in [1..n -> DocChoices] :
      d = Enum(a, DeclVariants(SubSeq(DocIdents, 1, n), f))

\* declarations with every attribute list of up to two attributes, whether or
\* not the host would accept the combination: the transforms read the
\* attributes before the host checks them
IsReprDecl(d) ==
  \E n \in 0..2 : \E as \in [1..n -> ReprAttrs \cup {OtherAttr}] :
    d = Enum(as, <<Variant("A", NoDisc, <<>>), Variant("Unknown", NoDisc, <<>>)>>)

-----------------------------------------------------------------------------
(* The state machine *)

NoCall == [fn |-> "none", arg |-> 0, ret |-> None]

Idle ==
  /\ macro = "none"
  /\ output = Pending
  /\ call = NoCall
  /\ pc = "idle"
  /\ repr_ty = "isize"
  /\ next_val = None
  /\ resolved = <<>>
  /\ variants = <<>>

InitConv == IsConvDecl(input) /\ ValidDecl(input) /\ Idle
InitDoc == IsDocDecl(input) /\ ValidDecl(input) /\ Idle
InitRepr == IsReprDecl(input) /\ Idle
Init == (IsConvDecl(input) \/ IsDocDecl(input)) /\ ValidDecl(input) /\ Idle

\* #[derive(FromReprAsOption)]
FromReprAsOptionDerive ==
  /\ macro = "none"
  /\ macro' = "FromReprAsOption"
  /\ output' = from_repr_as_option_derive_impl(input)
  /\ UNCHANGED <<input, call, pc, repr_ty, next_val, resolved, variants>>

\* #[derive(FromReprWithUnknown)]
FromReprWithUnknownDerive ==
  /\ macro = "none"
  /\ macro' = "FromReprWithUnknown"
  /\ output' = from_repr_with_unknown_derive_impl(input)
  /\ UNCHANGED <<input, call, pc, repr_ty, next_val, resolved, variants>>

\* a call of the emitted Enum::from_repr, once the crate has compiled
CallFromRepr ==
  /\ macro = "FromReprAsOption"
  /\ HostAccepts(input, output)
  /\ \E v \in 0..MaxValue :
       call' = [fn |-> "from_repr", arg |-> v, ret |-> from_repr(output, v, input.variants)]
  /\ UNCHANGED <<input, macro, output, pc, repr_ty, next_val, resolved, variants>>

\* a call of the emitted From<T>::from, once the crate has compiled
CallFrom ==
  /\ macro = "FromReprWithUnknown"
  /\ HostAccepts(input, output)
  /\ \E v \in 0..MaxValue :
       call' = [fn |-> "from", arg |-> v, ret |-> from(output, v, input.variants)]
  /\ UNCHANGED <<input, macro, output, pc, repr_ty, next_val, resolved, variants>>

\* #[enum_with_hex_docs], up to the loop: the item must parse as an enum
DocBegin ==
  /\ macro = "none"
  /\ input.kind = "enum"
  /\ macro' = "enum_with_hex_docs"
  /\ repr_ty' = (IF extract_repr(input.attrs) # None THEN extract_repr(input.attrs)[1] ELSE "isize")
  /\ next_val' = Some(0)
  /\ variants' = <<>>
  /\ resolved' = <<>>
  /\ pc' = "loop"
  /\ UNCHANGED <<input, output, call>>

\* one iteration of `for variant in input.variants`
DocVariant ==
  /\ pc = "loop"
  /\ Len(variants) < Len(input.variants)
  /\ LET v == input.variants[Len(variants) + 1]
         r == ResolveVariant(v.disc, next_val)
     IN  /\ next_val' = r.next_val
         /\ resolved' = Append(resolved, r.val)
         /\ variants' = Append(variants, EmitVariant(v, r.val, repr_ty))
  /\ UNCHANGED <<input, macro, output, call, pc, repr_ty>>

\* the enum is put together again from the emitted variants
DocFinish ==
  /\ pc = "loop"
  /\ Len(variants) = Len(input.variants)
  /\ output' = [status |-> "ok", form |-> "enum", attrs |-> input.attrs, variants |-> variants]
  /\ pc' = "done"
  /\ UNCHANGED <<input, macro, call, repr_ty, next_val, resolved, variants>>

NextDerive == FromReprAsOptionDerive \/ FromReprWithUnknownDerive
NextCall == CallFromRepr \/ CallFrom
NextDoc == DocBegin \/ DocVariant \/ DocFinish

Next == NextDerive \/ NextCall \/ NextDoc

Spec == Init /\ [][Next]_vars
SpecConv == InitConv /\ [][NextDerive \/ NextCall]_vars
SpecDoc == InitDoc /\ [][NextDoc]_vars
SpecRepr == InitRepr /\ [][NextDerive \/ NextDoc]_vars

-----------------------------------------------------------------------------
(* Vocabulary of the properties *)

Derives == {"FromReprAsOption", "FromReprWithUnknown"}

ReprIndices(attrs) == {i \in 1..Len(attrs) : attrs[i].path = "repr"}

SetMin(S) == CHOOSE x \in S : \A y \in S : x <= y
SetMax(S) == CHOOSE x \in S : \A y \in S : y <= x

\* the first repr attribute holds exactly one bare identifier
HasSingleIdentRepr(attrs) ==
  /\ ReprIndices(attrs) # {}
  /\ LET a == attrs[SetMin(ReprIndices(attrs))]
     IN  Len(a.args) = 1 /\ ~a.args[1].list

\* no repr attribute, or none of whose arguments is a known integer type name
NoRecognizedRepr(attrs) ==
  \A i \in ReprIndices(attrs) :
    \A k \in 1..Len(attrs[i].args) : attrs[i].args[k].path \notin KnownInts

\* positions of a repr attribute's arguments that name a known integer type
KnownArgs(a) == {k \in 1..Len(a.args) : a.args[k].path \in KnownInts}

\* those of them with no list-form argument in front
ReachedKnownArgs(a) == {k \in KnownArgs(a) : \A j \in 1..(k - 1) : ~a.args[j].list}

\* the step of the documentation transform that handles variant number n
HandlesVariant(n) == pc = "loop" /\ Len(variants) = n - 1 /\ Len(variants') = n

GeneratedCount(attrs) == Cardinality({k \in 1..Len(attrs) : attrs[k].generated})

-----------------------------------------------------------------------------
(* C1: with pairwise distinct discriminants, the emitted from_repr returns  *)
(* Some(vi) exactly when its input equals di, and None for every input that *)
(* is no variant's discriminant.                                            *)
C1_FromReprSomeExactlyOnDiscriminant ==
  call.fn = "from_repr" =>
    LET vs == input.variants
        d  == Discriminants(vs)
    IN  Distinct(d) =>
          /\ \A i \in 1..Len(vs) :
               (call.ret = Some(vs[i].ident)) <=> (<<0, call.arg>> = d[i])
          /\ (\A i \in 1..Len(vs) : <<0, call.arg>> # d[i]) => call.ret = None

\* from_repr hits the second variant of an enum, an Unknown left without a discriminant
C1_Witness ==
  /\ call.fn = "from_repr"
  /\ Len(input.variants) >= 2
  /\ input.variants[2].disc.kind = "none"
  /\ call.ret = Some(input.variants[2].ident)
  /\ call.ret = Some("Unknown")

(* C2: the emitted From<T>::from returns vi for input di for every variant  *)
(* other than Unknown, returns Unknown for every other input, and Unknown   *)
(* is never one of the comparison branches.                                 *)
C2_FromFallsBackToUnknown ==
  call.fn = "from" =>
    LET vs    == input.variants
        d     == Discriminants(vs)
        named == {i \in 1..Len(vs) : vs[i].ident # "Unknown"}
    IN  /\ "Unknown" \notin SeqRange(output.arms)
        /\ \A i \in named : <<0, call.arg>> = d[i] => call.ret = vs[i].ident
        /\ (\A i \in named : <<0, call.arg>> # d[i]) => call.ret = "Unknown"

\* from is handed the discriminant of Unknown itself, in an enum with other variants
C2_Witness ==
  /\ call.fn = "from"
  /\ Len(input.variants) >= 2
  /\ "Unknown" \in SeqRange(Idents(input.variants))
  /\ <<0, call.arg>> = DiscriminantOf(input.variants, "Unknown")
  /\ call.ret = "Unknown"

(* C3, as claimed: FromReprWithUnknown on an enum with no variant named     *)
(* Unknown ends in a fatal error of the transform and emits nothing.        *)
C3_MissingUnknownIsFatal ==
  ( /\ macro = "FromReprWithUnknown"
    /\ input.kind = "enum"
    /\ "Unknown" \notin SeqRange(Idents(input.variants)) )
  => output.status = "panic"

(* C3, amended: on an enum whose first repr attribute is one identifier and *)
(* that has no variant named Unknown, the transform does not fail: it emits *)
(* an impl with one branch per variant and the fallback Enum::Unknown, a    *)
(* variant the enum does not declare, so the emitted conversion is never    *)
(* callable (the host compiler rejects it).                                 *)
C3_MissingUnknownIsEmitted ==
  ( /\ macro = "FromReprWithUnknown"
    /\ input.kind = "enum"
    /\ HasSingleIdentRepr(input.attrs)
    /\ "Unknown" \notin SeqRange(Idents(input.variants)) )
  => /\ output.status = "ok"
     /\ output.arms = Idents(input.variants)
     /\ output.fallback = "Unknown"
     /\ output.fallback \notin SeqRange(Idents(input.variants))
     /\ call = NoCall

\* the derive has run on a two-variant enum without Unknown
C3_Witness ==
  /\ macro = "FromReprWithUnknown"
  /\ Idents(input.variants) = <<"A", "B">>
  /\ HasSingleIdentRepr(input.attrs)
  /\ output.status = "ok"

(* C4, as claimed: a conversion derive applied to a declaration with no     *)
(* repr attribute, or with repr attributes none of whose arguments is a     *)
(* known integer type name, ends in a fatal error and emits nothing.        *)
C4_UnrecognizedReprIsFatal ==
  (macro \in Derives /\ NoRecognizedRepr(input.attrs)) => output.status = "panic"

(* C4, amended: a conversion derive ends in the fatal "requires a repr      *)
(* attribute" error exactly when the declaration has no repr attribute or   *)
(* its first repr attribute is not exactly one identifier; one identifier,  *)
(* known integer type or not, is accepted and the impl is emitted.          *)
C4_FatalUnlessSingleIdentRepr ==
  macro \in Derives =>
    /\ ~HasSingleIdentRepr(input.attrs) =>
         /\ output.status = "panic"
         /\ output.msg \in
              {"FromReprAsOption requires a #[repr(...)] attribute (e.g., #[repr(u8)])",
               "FromWithUnknown requires a #[repr(...)] attribute (e.g., #[repr(u8)])"}
    /\ (HasSingleIdentRepr(input.attrs) /\ input.kind = "enum") => output.status = "ok"

\* a derive has failed on a declaration whose repr attribute does list u8
C4_Witness ==
  /\ macro = "FromReprAsOption"
  /\ output.status = "panic"
  /\ Len(input.attrs) = 2
  /\ input.attrs[1] = Attr("repr", <<Arg("C", FALSE), Arg("u8", FALSE)>>)
  /\ input.attrs[2] = Attr("repr", <<Arg("u8", FALSE)>>)

(* C5, as claimed: the running counter starts at zero; a variant with an    *)
(* integer-literal discriminant resolves to that literal and sets the       *)
(* counter to literal + 1; a variant with no discriminant resolves to the   *)
(* counter, which then grows by one.                                        *)
C5_LiteralOrCounter ==
  [][ /\ (pc = "idle" /\ pc' = "loop") => next_val' = Some(0)
      /\ \A n \in 1..Len(input.variants) :
           HandlesVariant(n) =>
             LET d   == input.variants[n].disc
                 lit == DiscriminantValue(d, <<0, -1>>)
                 val == resolved'[n]
             IN  /\ d.kind \in {"lit", "biglit"} =>
                      /\ val # None
                      /\ <<0, val[1]>> = lit
                      /\ next_val' # None
                      /\ <<0, next_val'[1]>> = <<lit[1], lit[2] + 1>>
                 /\ d.kind = "none" =>
                      /\ val = next_val
                      /\ next_val' = Some(next_val[1] + 1)
    ]_vars

(* C6, as claimed: a variant whose discriminant is not an integer literal   *)
(* gets no resolved value, the documentation "<identifier> (unknown)", and  *)
(* leaves the running counter as it was.                                    *)
C6_NonLiteralIsUnknown ==
  [][ \A n \in 1..Len(input.variants) :
        (HandlesVariant(n) /\ input.variants[n].disc.kind = "expr") =>
          /\ resolved'[n] = None
          /\ \E k \in 1..Len(variants'[n].attrs) :
               /\ variants'[n].attrs[k].generated
               /\ variants'[n].attrs[k].value = <<input.variants[n].ident, " (unknown)">>
          /\ next_val' = next_val
    ]_vars

(* C7, as claimed: the emitted enum has the input's variants, in the same   *)
(* order, each with the same discriminant value.                            *)
C7_SameVariantsSameValues ==
  pc = "done" =>
    /\ Len(output.variants) = Len(input.variants)
    /\ Idents(output.variants) = Idents(input.variants)
    /\ Discriminants(output.variants) = Discriminants(input.variants)

(* C8, as claimed: every transform takes as representation type the first   *)
(* argument of the repr attribute that is a known integer type name,        *)
(* whatever else the attribute lists, and never a symbol outside the        *)
(* twelve names (stated for declarations with one repr attribute).          *)
C8_FirstKnownArgument ==
  Cardinality(ReprIndices(input.attrs)) = 1 =>
    LET a == input.attrs[SetMin(ReprIndices(input.attrs))]
    IN  /\ (macro = "enum_with_hex_docs" /\ KnownArgs(a) # {}) =>
             repr_ty = a.args[SetMin(KnownArgs(a))].path
        /\ (macro \in Derives /\ KnownArgs(a) # {}) =>
             /\ output.status = "ok"
             /\ output.repr_type = a.args[SetMin(KnownArgs(a))].path
        /\ (macro \in Derives /\ output.status = "ok") => output.repr_type \in KnownInts

(* C8, amended: the documentation transform takes the first repr attribute  *)
(* in which it reaches a known integer type name (it reads an attribute's   *)
(* arguments up to the first one in list form) and returns the last such    *)
(* name reached there, else isize; never a symbol outside the twelve names. *)
(* The conversion derives look only at the first repr attribute and return  *)
(* its argument when it is exactly one identifier, whatever identifier.     *)
C8_ExtractionPerTransform ==
  /\ macro = "enum_with_hex_docs" =>
       LET deciding == {i \in ReprIndices(input.attrs) : ReachedKnownArgs(input.attrs[i]) # {}}
       IN  /\ repr_ty \in KnownInts
           /\ deciding = {} => repr_ty = "isize"
           /\ deciding # {} =>
                LET a == input.attrs[SetMin(deciding)]
                IN  repr_ty = a.args[SetMax(ReachedKnownArgs(a))].path
  /\ (macro \in Derives /\ output.status = "ok") =>
       /\ HasSingleIdentRepr(input.attrs)
       /\ output.repr_type = input.attrs[SetMin(ReprIndices(input.attrs))].args[1].path

\* the documentation transform has read #[repr(C, u8)] and taken u8
C8_Witness ==
  /\ macro = "enum_with_hex_docs"
  /\ input.attrs = <<OtherAttr, Attr("repr", <<Arg("C", FALSE), Arg("u8", FALSE)>>)>>
  /\ repr_ty = "u8"

(* C9, as claimed: in the emitted enum a variant with a literal             *)
(* discriminant keeps it, cast to the representation type, and a variant    *)
(* without a discriminant has none.                                         *)
C9_BareVariantsStayBare ==
  pc = "done" =>
    \A n \in 1..Len(input.variants) :
      LET d == input.variants[n].disc
          o == output.variants[n].disc
      IN  /\ d.kind \in {"lit", "biglit"} =>
               /\ o.kind = "cast"
               /\ <<0, o.val>> = DiscriminantValue(d, <<0, -1>>)
               /\ o.ty = repr_ty
          /\ d.kind = "none" => o.kind = "none"

(* C9, amended: a variant with a literal discriminant that fits i128 keeps  *)
(* that value, cast to the representation type; a variant without a         *)
(* discriminant is given one: the value the transform resolved for it (the  *)
(* running counter), cast to the representation type.                       *)
C9_BareVariantsGetResolvedValue ==
  pc = "done" =>
    \A n \in 1..Len(input.variants) :
      LET d == input.variants[n].disc
          o == output.variants[n].disc
      IN  /\ d.kind = "lit" => o = [kind |-> "cast", val |-> d.val, ty |-> repr_ty]
          /\ d.kind = "none" =>
               /\ resolved[n] # None
               /\ o = [kind |-> "cast", val |-> resolved[n][1], ty |-> repr_ty]
               /\ (n = 1 => o.val = 0)
               /\ (n > 1 /\ input.variants[n - 1].disc.kind \in {"lit", "none"}) =>
                    o.val = output.variants[n - 1].disc.val + 1

\* {A = 1, B} has been rewritten: B now carries the discriminant 2
C9_Witness ==
  /\ pc = "done"
  /\ Len(input.variants) >= 2
  /\ input.variants[1].disc = Lit(1)
  /\ input.variants[2].disc = NoDisc
  /\ output.variants[2].disc.kind = "cast"
  /\ output.variants[2].disc.val = 2

(* C10, as claimed: every emitted variant carries exactly one generated     *)
(* documentation attribute, the variants keep their order, and the          *)
(* generated attribute comes before the variant's own attributes, which     *)
(* are carried through unchanged.                                           *)
C10_GeneratedDocFirst ==
  pc = "done" =>
    /\ Idents(output.variants) = Idents(input.variants)
    /\ \A n \in 1..Len(input.variants) :
         LET o == output.variants[n].attrs
         IN  /\ GeneratedCount(o) = 1
             /\ o[1].generated
             /\ Tail(o) = input.variants[n].attrs

(* C10, amended: the same, except that the generated attribute comes after  *)
(* the variant's own attributes.                                            *)
C10_GeneratedDocLast ==
  pc = "done" =>
    /\ Idents(output.variants) = Idents(input.variants)
    /\ \A n \in 1..Len(input.variants) :
         LET o == output.variants[n].attrs
         IN  /\ GeneratedCount(o) = 1
             /\ o[Len(o)].generated
             /\ SubSeq(o, 1, Len(o) - 1) = input.variants[n].attrs

\* a variant with two attributes of its own has been emitted
C10_Witness ==
  /\ pc = "done"
  /\ Len(input.variants) >= 2
  /\ input.variants[2].attrs = <<OrigDoc, CfgAttr>>
  /\ Len(output.variants[2].attrs) = 3

=============================================================================
